---- MODULE Spec2Model ----
(***************************************************************************)
(* A model of the Minecraft Server Wrapper installer: the silent front end *)
(* (src/silent_installer.py) and the installation wizard                   *)
(* (src/installer_gui.py).                                                 *)
(***************************************************************************)
EXTENDS Integers, Sequences, FiniteSets, TLC

VARIABLES
    frontend,       \* "silent" | "wizard": '--silent' in sys.argv
    platform,       \* platform.system(): "Windows" | "Linux" ("none" until the
                    \* run depends on it)
    run,            \* 1 in the first run of the installer on the path, 2 in a second
    first,          \* what the first run found and left, kept for the second run
    \* ---- silent front end (SilentInstaller) ----
    args,           \* the parsed command line (argparse namespace)
    file_config,    \* the JSON object json.load returned (no key before)
    config,         \* SilentInstaller.config
    pc,             \* position inside run_silent_installation / main
    result,         \* return value of run_silent_installation ("none" before)
    exit_code,      \* process exit code, -1 while running
    errors,         \* "Error: ..." diagnostics printed, in order
    steps_run,      \* installation steps invoked so far, with their outcome
    env,            \* what os.path.exists / os.access answered for install_path
    \* ---- wizard (InstallerWizard) ----
    current_step,
    license_accepted,
    installation_cancelled,
    installation_complete,
    next_enabled,   \* next_button state is 'normal'
    next_command,   \* next_button command
    back_enabled,   \* back_button state is 'normal'
    dialog,         \* the modal question on screen: "none" | "cancel"
    timers,         \* pending root.after(1000, perform_installation)
    spawned,        \* installation screens created so far
    workers,        \* install_thread position -> number of threads there
    callbacks,      \* pending root.after(0, ...) callbacks, in order
    quit,           \* root.quit() has been called
    progress_var,   \* the progress bar: files out of total_files (total = 100%)
    install_path,   \* InstallerWizard.install_path, read by install_thread
    path_var,       \* the text of the entry of the Directory screen
    validated,      \* the path validate_directory checked last ("none" before)
    complete_path,  \* install_path when a thread reported completion ("none" before)
    \* ---- environment and file system under the install path ----
    source,         \* manifest files found in the source directory
    dir_created,    \* os.makedirs(install_path) has been executed
    installed,      \* files present under the install path
    desktop,        \* launcher artifacts written to the Desktop folder
    install_info,   \* the content of install_info.json: << >> while there is none
    probed,         \* the write probe in the install path has succeeded
    \* ---- the install path, where its characters and the file system matter ----
    os_env,         \* the environment variables and home directory of the process
    default_path,   \* what get_default_install_path returned (<< >> before)
    path,           \* the install path to validate
    path_facts,     \* what is true of that path in the file system
    validation      \* the outcome of the validation of path ("none" before)

silent_vars == <<args, file_config, config, pc, result, exit_code, errors, steps_run, env>>
nav_vars == <<current_step, next_enabled, next_command, back_enabled>>
dir_vars == <<path_var, validated>>
wiz_vars == <<nav_vars, license_accepted, installation_cancelled, installation_complete,
              dialog, timers, spawned, workers, callbacks, quit, progress_var,
              install_path, dir_vars, complete_path>>
fs_vars == <<dir_created, installed, desktop, install_info, probed>>
path_vars == <<os_env, default_path, path, path_facts, validation>>
proc_vars == <<frontend, platform, run, first, path_vars>>
vars == <<proc_vars, silent_vars, wiz_vars, source, fs_vars>>

-----------------------------------------------------------------------------
(* Bounds *)

\* a config file of the model sets at most this many keys
MaxFileKeys == 2
\* source files that may be missing: any subset of the first MaxMissable
\* manifest files (or the whole manifest)
MaxMissable == 1
\* installation screens the wizard creates in one session
MaxWorkers == 2

-----------------------------------------------------------------------------
(* SilentInstaller: configuration *)

DefaultPath == "default"
ComponentIds == {"core", "service", "shortcuts", "examples"}

DefaultComponents ==
    [c \in ComponentIds |-> IF c = "examples" THEN FALSE ELSE TRUE]

\* mutant: the license is accepted by default
DefaultConfig_Accepted ==
    [install_path     |-> DefaultPath,
     components       |-> DefaultComponents,
     accept_license   |-> TRUE,
     create_shortcuts |-> TRUE,
     install_service  |-> TRUE]

DefaultConfig ==
    [install_path     |-> DefaultPath,
     components       |-> DefaultComponents,
     accept_license   |-> FALSE,
     create_shortcuts |-> TRUE,
     install_service  |-> TRUE]

ConfigKeys == {"install_path", "components", "accept_license",
               "create_shortcuts", "install_service"}

\* the "components" objects a config file of the model may hold
FileComponents ==
    { [c \in {"examples"} |-> TRUE],
      [c \in {"core", "examples"} |-> c = "core"],
      [c \in {"service"} |-> FALSE],
      [c \in {"core"} |-> FALSE] }

\* the JSON objects a config file of the model may hold: the keys it sets and
\* their values (the value of a key it does not set is not read)
FileConfigs ==
    { fc \in [keys             : {s \in SUBSET ConfigKeys : Cardinality(s) <= MaxFileKeys},
              install_path     : {"pFile"},
              components       : FileComponents,
              accept_license   : BOOLEAN,
              create_shortcuts : BOOLEAN,
              install_service  : BOOLEAN] :
        /\ "components" \notin fc.keys => fc.components = [c \in {"examples"} |-> TRUE]
        /\ "accept_license" \notin fc.keys => ~fc.accept_license
        /\ "create_shortcuts" \notin fc.keys => ~fc.create_shortcuts
        /\ "install_service" \notin fc.keys => ~fc.install_service }

\* dict.update: a key of the file replaces the key of the configuration whole
UpdateConfig(cfg, fc) ==
    [k \in DOMAIN cfg |-> IF k \in fc.keys THEN fc[k] ELSE cfg[k]]

\* self.config['components']['examples'] = True
SetExamples(comps) ==
    [c \in DOMAIN comps \cup {"examples"} |-> IF c = "examples" THEN TRUE ELSE comps[c]]

\* mutant: --install-path is applied only over the default path
ApplyArgs_KeepFilePath(cfg, a) ==
    [cfg EXCEPT
        !.install_path     = IF a.install_path # "none" /\ @ = DefaultPath
                             THEN a.install_path ELSE @,
        !.accept_license   = IF a.accept_license THEN TRUE ELSE @,
        !.install_service  = IF a.no_service THEN FALSE ELSE @,
        !.create_shortcuts = IF a.no_shortcuts THEN FALSE ELSE @,
        !.components       = IF a.include_examples THEN SetExamples(@) ELSE @]

\* "Apply command line arguments"
ApplyArgs(cfg, a) ==
    [cfg EXCEPT
        !.install_path     = IF a.install_path # "none" THEN a.install_path ELSE @,
        !.accept_license   = IF a.accept_license THEN TRUE ELSE @,
        !.install_service  = IF a.no_service THEN FALSE ELSE @,
        !.create_shortcuts = IF a.no_shortcuts THEN FALSE ELSE @,
        !.components       = IF a.include_examples THEN SetExamples(@) ELSE @]

Args ==
    [install_path     : {"none", "pCli"},
     accept_license   : BOOLEAN,
     no_service       : BOOLEAN,
     no_shortcuts     : BOOLEAN,
     include_examples : BOOLEAN,
     config_file      : BOOLEAN]

-----------------------------------------------------------------------------
(* SilentInstaller: path validation *)

\* the answers of os.path.exists(path), os.access(path, W_OK),
\* os.path.exists(parent), os.access(parent, W_OK); an answer the code does
\* not ask for is FALSE
PathEnvs ==
    { e \in [exists : BOOLEAN, writable : BOOLEAN,
             parent_exists : BOOLEAN, parent_writable : BOOLEAN] :
        /\ e.exists => ~e.parent_exists /\ ~e.parent_writable
        /\ ~e.exists => ~e.writable
        /\ e.parent_writable => e.parent_exists }

NoEnv == [exists |-> FALSE, writable |-> FALSE,
          parent_exists |-> FALSE, parent_writable |-> FALSE]

\* mutant: a path that does not exist is accepted without a look at its parent
validate_installation_path_NoParentCheck(e) ==
    IF ~e.exists THEN "Path is valid"
    ELSE IF ~e.writable THEN "No write permission to installation directory"
         ELSE "Path is valid"

validate_installation_path(e) ==
    IF ~e.exists
    THEN IF ~e.parent_exists THEN "Parent directory does not exist"
         ELSE IF ~e.parent_writable THEN "No write permission to parent directory"
         ELSE "Path is valid"
    ELSE IF ~e.writable THEN "No write permission to installation directory"
         ELSE "Path is valid"

-----------------------------------------------------------------------------
(* SilentInstaller: installation steps *)

files_to_copy ==
    << "app.js", "package.json", "script.js", "index.html", "style.css",
       "install.bat", "install.sh", "setup.js", "uninstall.bat", "uninstall.sh",
       "README.md" >>

Range(s) == {s[i] : i \in DOMAIN s}

\* the source directories of the model
Sources(manifest) ==
    { Range(manifest) \ m : m \in SUBSET {manifest[i] : i \in 1..MaxMissable} }
        \cup { {} }

\* mutant: the copy loop ends at the first file missing from the source
FilesCopied_StopAtMissing(manifest, src, upto) ==
    {manifest[i] : i \in {j \in 1..upto : \A k \in 1..j : manifest[k] \in src}}

\* the files install_files copies: those of the manifest found in the source
FilesCopied(manifest, src, upto) ==
    {manifest[i] : i \in {j \in 1..upto : manifest[j] \in src}}

\* os.path.getctime(install_path) as create_uninstaller reads it: on Windows
\* the creation time of the directory, elsewhere the time of the last change
\* of its inode, which every entry added to the directory moves forward (the
\* silent front end removes none); instants are counted in entries
getctime(plat) == IF plat = "Windows" THEN 0 ELSE Cardinality(installed)

steps == << "Installing files", "Creating shortcuts",
            "Preparing service installation", "Creating uninstaller" >>

\* mutant: the loop steps over the step that follows a successful one
AfterStep_Skip(i, success) ==
    IF ~success THEN "failed"
    ELSE IF i + 1 < Len(steps) THEN steps[i + 2]
    ELSE "succeeded"

\* mutant: the loop does not look at the outcome of a step
AfterStep_NonFatal(i, success) ==
    IF i < Len(steps) THEN steps[i + 1]
    ELSE "succeeded"

\* mutant: a step that failed is invoked again
AfterStep_Retry(i, success) ==
    IF ~success THEN steps[i]
    ELSE IF i < Len(steps) THEN steps[i + 1]
    ELSE "succeeded"

\* the step loop of run_silent_installation: where the run goes after step i
AfterStep(i, success) ==
    IF ~success THEN "failed"
    ELSE IF i < Len(steps) THEN steps[i + 1]
    ELSE "succeeded"

StepIndex(name) == CHOOSE i \in DOMAIN steps : steps[i] = name

\* bookkeeping of one step_func(verbose) call and of what the loop does next
StepDone(name, success) ==
    LET nxt == AfterStep(StepIndex(name), success) IN
    /\ steps_run' = Append(steps_run, [step |-> name, ok |-> success])
    /\ IF nxt = "failed"
       THEN /\ errors' = Append(errors, name)
            /\ result' = "False"
            /\ pc' = "exit"
       ELSE IF nxt = "succeeded"
       THEN /\ errors' = errors
            /\ result' = "True"
            /\ pc' = "exit"
       ELSE /\ errors' = errors
            /\ result' = result
            /\ pc' = nxt

-----------------------------------------------------------------------------
(* InstallerWizard: navigation *)

wizard_steps == << "Welcome", "License", "Directory", "Components",
                   "Installation", "Complete" >>

LastStep == Len(wizard_steps) - 1

\* check_next_button_state: is the Next button enabled on this step
check_next_button_state(step, accepted, complete) ==
    IF step = 1 THEN accepted
    ELSE IF step = 4 THEN complete
    ELSE TRUE

\* mutant: the Next button of the last step keeps the command of "Install"
NextButtonCommand_InstallOnLast(step) ==
    IF step >= LastStep - 1 THEN "start_installation"
    ELSE "next_step"

\* update_button_states: the command bound to the Next button on this step
NextButtonCommand(step) ==
    IF step = LastStep THEN "finish_installation"
    ELSE IF step = LastStep - 1 THEN "start_installation"
    ELSE "next_step"

\* show_current_step after current_step became s: the screen of step s is
\* created (the Installation screen schedules perform_installation) and the
\* buttons are updated
ShowCurrentStep(s) ==
    /\ current_step' = s
    /\ back_enabled' = (s # 0)
    /\ next_command' = NextButtonCommand(s)
    /\ next_enabled' = check_next_button_state(s, license_accepted, installation_complete)
    /\ IF s = 4
       THEN \* create_installation_screen: a new progress bar, the timer
            timers' = timers + 1 /\ spawned' = spawned + 1 /\ progress_var' = 0
       ELSE UNCHANGED <<timers, spawned, progress_var>>
    /\ IF s = 2
       THEN \* create_directory_screen: the entry shows install_path, which
            \* validate_directory checks
            path_var' = install_path /\ validated' = install_path
       ELSE UNCHANGED dir_vars

\* the bound of the model on the installation screens created
MayShow(s) == s = 4 => spawned < MaxWorkers

\* the main window takes a click: no modal dialog is open, mainloop is running
Clickable == frontend = "wizard" /\ ~quit /\ dialog = "none"

-----------------------------------------------------------------------------
(* InstallerWizard: the installation thread *)

wizard_files ==
    << "server.js", "package.json", "package-lock.json", "setup.js",
       "install.bat", "install.sh", "uninstall.bat", "README.md",
       "public/index.html", "public/script.js", "public/style.css" >>

total_files == Len(wizard_files)

\* positions of install_thread: 0 before the directory is prepared, i in
\* 1..total_files at the top of the loop for the i-th file, Finalize after
\* the loop
Prepare == 0
Finalize == total_files + 1
WorkerPositions == Prepare..Finalize

NoWorkers == [p \in WorkerPositions |-> 0]

Move(w, from, to) ==
    [p \in WorkerPositions |->
        IF p = from /\ p = to THEN w[p]
        ELSE IF p = from THEN w[p] - 1
        ELSE IF p = to THEN w[p] + 1
        ELSE w[p]]

Leave(w, from) ==
    [p \in WorkerPositions |-> IF p = from THEN w[p] - 1 ELSE w[p]]

\* the marker file of the write probe
test_file == ".test_write"

\* the widgets of the Installation screen exist (show_current_step destroys
\* them when another screen is shown)
LabelsAlive == current_step = 4

\* the loop of install_thread: where the thread goes after the i-th file
AfterFile(i) == IF i < total_files THEN i + 1 ELSE Finalize

\* "if self.installation_cancelled: return" at the top of the loop
StopsAt(i, cancelled) == cancelled

\* the thread runs: mainloop has not been left
Running(p) == frontend = "wizard" /\ ~quit /\ workers[p] > 0

-----------------------------------------------------------------------------
(* Paths: a path is the sequence of its characters *)

lower ==
    << "a", "b", "c", "d", "e", "f", "g", "h", "i", "j", "k", "l", "m",
       "n", "o", "p", "q", "r", "s", "t", "u", "v", "w", "x", "y", "z" >>

upper ==
    << "A", "B", "C", "D", "E", "F", "G", "H", "I", "J", "K", "L", "M",
       "N", "O", "P", "Q", "R", "S", "T", "U", "V", "W", "X", "Y", "Z" >>

\* str.upper
ToUpper(p) ==
    [i \in DOMAIN p |->
        IF \E k \in DOMAIN lower : lower[k] = p[i]
        THEN upper[CHOOSE k \in DOMAIN lower : lower[k] = p[i]]
        ELSE p[i]]

\* str.startswith
startswith(p, prefix) ==
    /\ Len(p) >= Len(prefix)
    /\ SubSeq(p, 1, Len(prefix)) = prefix

\* os.path.join(a, b) with the separator of the platform, for a that does not
\* end with a separator and b that is relative
Join(plat, a, b) == a \o << IF plat = "Windows" THEN "\\" ELSE "/" >> \o b
\* admin_paths of is_admin_required_path
admin_paths ==
    {
      \* C:\Program Files
      << "C", ":", "\\", "P", "r", "o", "g", "r", "a", "m", " ", "F", "i",
         "l", "e", "s" >>,
      \* C:\Program Files (x86)
      << "C", ":", "\\", "P", "r", "o", "g", "r", "a", "m", " ", "F", "i",
         "l", "e", "s", " ", "(", "x", "8", "6", ")" >>,
      \* C:\Windows
      << "C", ":", "\\", "W", "i", "n", "d", "o", "w", "s" >>,
      \* C:\ProgramData
      << "C", ":", "\\", "P", "r", "o", "g", "r", "a", "m", "D", "a", "t",
         "a" >> }
\* system_paths of is_admin_required_path
system_paths ==
    {
      \* /usr
      << "/", "u", "s", "r" >>,
      \* /opt
      << "/", "o", "p", "t" >>,
      \* /etc
      << "/", "e", "t", "c" >>,
      \* /var
      << "/", "v", "a", "r" >>,
      \* /bin
      << "/", "b", "i", "n" >>,
      \* /sbin
      << "/", "s", "b", "i", "n" >> }
is_admin_required_path(plat, p) ==
    IF plat = "Windows"
    THEN \E admin_path \in admin_paths : startswith(ToUpper(p), ToUpper(admin_path))
    ELSE \E sys_path \in system_paths : startswith(p, sys_path)
\* the install paths of the model the operator may choose on Windows
WindowsPaths ==
    {
      \* C:\Program Files\msw
      << "C", ":", "\\", "P", "r", "o", "g", "r", "a", "m", " ", "F", "i",
         "l", "e", "s", "\\", "m", "s", "w" >>,
      \* c:\program files\msw
      << "c", ":", "\\", "p", "r", "o", "g", "r", "a", "m", " ", "f", "i",
         "l", "e", "s", "\\", "m", "s", "w" >>,
      \* C:\Program Files (x86)\msw
      << "C", ":", "\\", "P", "r", "o", "g", "r", "a", "m", " ", "F", "i",
         "l", "e", "s", " ", "(", "x", "8", "6", ")", "\\", "m", "s", "w" >>,
      \* C:\Windows\msw
      << "C", ":", "\\", "W", "i", "n", "d", "o", "w", "s", "\\", "m", "s",
         "w" >>,
      \* C:\ProgramData\msw
      << "C", ":", "\\", "P", "r", "o", "g", "r", "a", "m", "D", "a", "t",
         "a", "\\", "m", "s", "w" >>,
      \* C:\Users\u\msw
      << "C", ":", "\\", "U", "s", "e", "r", "s", "\\", "u", "\\", "m", "s",
         "w" >>,
      \* D:\msw
      << "D", ":", "\\", "m", "s", "w" >>,
      \* C:/Program Files/msw
      << "C", ":", "/", "P", "r", "o", "g", "r", "a", "m", " ", "F", "i",
         "l", "e", "s", "/", "m", "s", "w" >> }
\* the install paths of the model the operator may choose elsewhere
LinuxPaths ==
    {
      \* /usr/local/msw
      << "/", "u", "s", "r", "/", "l", "o", "c", "a", "l", "/", "m", "s",
         "w" >>,
      \* /opt/msw
      << "/", "o", "p", "t", "/", "m", "s", "w" >>,
      \* /etc/msw
      << "/", "e", "t", "c", "/", "m", "s", "w" >>,
      \* /var/lib/msw
      << "/", "v", "a", "r", "/", "l", "i", "b", "/", "m", "s", "w" >>,
      \* /bin/msw
      << "/", "b", "i", "n", "/", "m", "s", "w" >>,
      \* /sbin/msw
      << "/", "s", "b", "i", "n", "/", "m", "s", "w" >>,
      \* /home/u/msw
      << "/", "h", "o", "m", "e", "/", "u", "/", "m", "s", "w" >>,
      \* /srv/msw
      << "/", "s", "r", "v", "/", "m", "s", "w" >>,
      \* /various/msw
      << "/", "v", "a", "r", "i", "o", "u", "s", "/", "m", "s", "w" >> }
Paths(plat) == IF plat = "Windows" THEN WindowsPaths ELSE LinuxPaths

\* what is true of the chosen path in the file system: the answers of
\* os.path.exists and os.access for the path and for its parent, and, for a
\* path that does not exist, whether its nearest existing ancestor is
\* writable (what os.makedirs needs); a fact nothing depends on is FALSE
PathFacts ==
    { f \in [exists : BOOLEAN, writable : BOOLEAN, parent_exists : BOOLEAN,
             parent_writable : BOOLEAN, ancestor_writable : BOOLEAN] :
        /\ f.exists => ~f.parent_exists /\ ~f.parent_writable /\ ~f.ancestor_writable
        /\ ~f.exists => ~f.writable
        /\ f.parent_writable => f.parent_exists
        /\ f.parent_exists => f.ancestor_writable = f.parent_writable }

NoFacts == [exists |-> FALSE, writable |-> FALSE, parent_exists |-> FALSE,
            parent_writable |-> FALSE, ancestor_writable |-> FALSE]

\* the answers validate_installation_path gets
Answers(f) ==
    [exists |-> f.exists, writable |-> f.writable,
     parent_exists |-> f.parent_exists, parent_writable |-> f.parent_writable]

\* mutant: an existing directory that is not writable is not looked up in the
\* reserved prefixes
validate_directory_ExistingNotClassified(plat, p, f) ==
    IF ~f.exists
    THEN IF f.parent_exists /\ f.parent_writable THEN "Directory will be created"
         ELSE IF is_admin_required_path(plat, p)
         THEN "Administrator privileges required for this location"
         ELSE "Cannot create directory"
    ELSE IF f.writable THEN "Directory is writable"
         ELSE "Directory is not writable"

\* validate_directory: the text of the validation label
validate_directory(plat, p, f) ==
    IF ~f.exists
    THEN IF f.parent_exists /\ f.parent_writable THEN "Directory will be created"
         ELSE IF is_admin_required_path(plat, p)
         THEN "Administrator privileges required for this location"
         ELSE "Cannot create directory"
    ELSE IF f.writable THEN "Directory is writable"
         ELSE IF is_admin_required_path(plat, p)
         THEN "Administrator privileges required for this location"
         ELSE "Directory is not writable"

\* os.makedirs(path, exist_ok=True) succeeds
makedirs(f) == f.exists \/ f.ancestor_writable

\* SilentInstaller.app_name
app_name ==
    << "M", "i", "n", "e", "c", "r", "a", "f", "t", " ", "S", "e", "r", "v",
      "e", "r", " ", "W", "r", "a", "p", "p", "e", "r" >>

silent_home_dir ==
    << "M", "i", "n", "e", "c", "r", "a", "f", "t", "W", "r", "a", "p", "p",
      "e", "r" >>

wizard_local_dir ==
    << "M", "i", "n", "e", "c", "r", "a", "f", "t", "S", "e", "r", "v", "e",
      "r", "W", "r", "a", "p", "p", "e", "r" >>

wizard_home_dir ==
    << "m", "i", "n", "e", "c", "r", "a", "f", "t", "-", "s", "e", "r", "v",
      "e", "r", "-", "w", "r", "a", "p", "p", "e", "r" >>

\* the default of os.environ.get('PROGRAMFILES', ...)
ProgramFilesDefault ==
    << "C", ":", "\\", "P", "r", "o", "g", "r", "a", "m", " ", "F", "i",
      "l", "e", "s" >>

\* os.path.expandvars leaves the name of a variable that is not set
LocalAppDataVar ==
    << "%", "L", "O", "C", "A", "L", "A", "P", "P", "D", "A", "T", "A", "%" >>

\* os.path.expanduser('~') in the model
Homes ==
    {
      \* /home/u
      << "/", "h", "o", "m", "e", "/", "u" >>,
      \* /root
      << "/", "r", "o", "o", "t" >>,
      \* /var/lib/msw
      << "/", "v", "a", "r", "/", "l", "i", "b", "/", "m", "s", "w" >> }

\* %PROGRAMFILES% in the model; << >>: not set
ProgramFilesValues ==
    {
      << >>,
      \* C:\Program Files
      << "C", ":", "\\", "P", "r", "o", "g", "r", "a", "m", " ", "F", "i",
         "l", "e", "s" >>,
      \* D:\Apps
      << "D", ":", "\\", "A", "p", "p", "s" >> }

\* %LOCALAPPDATA% in the model; << >>: not set
LocalAppDataValues ==
    {
      << >>,
      \* C:\Users\u\AppData\Local
      << "C", ":", "\\", "U", "s", "e", "r", "s", "\\", "u", "\\", "A", "p",
         "p", "D", "a", "t", "a", "\\", "L", "o", "c", "a", "l" >>,
      \* C:\Windows\ServiceProfiles\s\AppData\Local
      << "C", ":", "\\", "W", "i", "n", "d", "o", "w", "s", "\\", "S", "e",
         "r", "v", "i", "c", "e", "P", "r", "o", "f", "i", "l", "e", "s",
         "\\", "s", "\\", "A", "p", "p", "D", "a", "t", "a", "\\", "L", "o",
         "c", "a", "l" >> }

\* the environment of the process: the variables the default path is made of
\* (those the platform does not read are << >>)
OsEnvs(plat) ==
    IF plat = "Windows"
    THEN [home : { << >> }, PROGRAMFILES : ProgramFilesValues,
          LOCALAPPDATA : LocalAppDataValues]
    ELSE [home : Homes, PROGRAMFILES : { << >> }, LOCALAPPDATA : { << >> }]

NoOsEnv == [home |-> << >>, PROGRAMFILES |-> << >>, LOCALAPPDATA |-> << >>]

\* get_default_install_path of the two front ends
get_default_install_path(fe, plat, e) ==
    IF fe = "silent"
    THEN IF plat = "Windows"
         THEN Join(plat, IF e.PROGRAMFILES = << >> THEN ProgramFilesDefault
                         ELSE e.PROGRAMFILES, app_name)
         ELSE Join(plat, e.home, silent_home_dir)
    ELSE IF plat = "Windows"
         THEN Join(plat, IF e.LOCALAPPDATA = << >> THEN LocalAppDataVar
                         ELSE e.LOCALAPPDATA, wizard_local_dir)
         ELSE Join(plat, e.home, wizard_home_dir)

-----------------------------------------------------------------------------
(* Initial state *)

NoArgs ==
    [install_path |-> "none", accept_license |-> FALSE, no_service |-> FALSE,
     no_shortcuts |-> FALSE, include_examples |-> FALSE, config_file |-> FALSE]

NoFile == CHOOSE fc \in FileConfigs : fc.keys = {}

NoFirst == [file_config |-> NoFile, source |-> {}, installed |-> {}, desktop |-> {},
            install_info |-> << >>]

Init ==
    /\ frontend \in {"silent", "wizard"}
    /\ platform = "none"
    /\ run = 1
    /\ first = NoFirst
    /\ args \in IF frontend = "silent" THEN Args ELSE {NoArgs}
    /\ file_config = NoFile
    /\ config = DefaultConfig
    /\ pc = "parse"
    /\ result = "none"
    /\ exit_code = -1
    /\ errors = << >>
    /\ steps_run = << >>
    /\ env = NoEnv
    /\ current_step = 0
    /\ license_accepted = FALSE
    /\ installation_cancelled = FALSE
    /\ installation_complete = FALSE
    /\ next_enabled = TRUE
    /\ next_command = "next_step"
    /\ back_enabled = FALSE
    /\ dialog = "none"
    /\ timers = 0
    /\ spawned = 0
    /\ workers = NoWorkers
    /\ callbacks = << >>
    /\ quit = FALSE
    /\ progress_var = 0
    /\ install_path = DefaultPath
    /\ path_var = DefaultPath
    /\ validated = "none"
    /\ complete_path = "none"
    /\ source \in IF frontend = "wizard" THEN Sources(wizard_files) ELSE { {} }
    /\ dir_created = FALSE
    /\ installed = {}
    /\ desktop = {}
    /\ install_info = << >>
    /\ probed = FALSE
    /\ os_env = NoOsEnv
    /\ default_path = << >>
    /\ path = << >>
    /\ path_facts = NoFacts
    /\ validation = "none"

-----------------------------------------------------------------------------
(* run_silent_installation *)

\* parse_arguments: argparse accepts the command line and returns the
\* namespace
ParseArguments ==
    /\ frontend = "silent" /\ pc = "parse"
    /\ pc' = "load_config"
    /\ UNCHANGED <<proc_vars, args, file_config, config, result, exit_code, errors,
                   steps_run, env, wiz_vars, source, fs_vars>>

\* parse_arguments: the command line holds an option argparse does not know
\* or an option without its value (parser.error: the process exits with 2), or
\* --help (the help is printed and the process exits with 0)
ParseExit ==
    /\ frontend = "silent" /\ pc = "parse"
    /\ run = 1
    /\ \E help \in BOOLEAN : exit_code' = IF help THEN 0 ELSE 2
    /\ pc' = "usage"
    /\ UNCHANGED <<proc_vars, args, file_config, config, result, errors, steps_run, env,
                   wiz_vars, source, fs_vars>>

\* "Load configuration file if provided": load_config_file succeeds
LoadConfigOk ==
    /\ frontend = "silent" /\ pc = "load_config"
    /\ args.config_file
    /\ \E fc \in FileConfigs :
        /\ run = 2 => fc = first.file_config
        /\ file_config' = fc
        /\ config' = UpdateConfig(config, fc)
    /\ pc' = "apply_args"
    /\ UNCHANGED <<proc_vars, args, result, exit_code, errors, steps_run, env,
                   wiz_vars, source, fs_vars>>

\* no --config-file
LoadConfigNone ==
    /\ frontend = "silent" /\ pc = "load_config"
    /\ ~args.config_file
    /\ pc' = "apply_args"
    /\ UNCHANGED <<proc_vars, args, file_config, config, result, exit_code, errors,
                   steps_run, env, wiz_vars, source, fs_vars>>

\* mutant: the return value of load_config_file is not looked at
LoadConfigFail_Ignored ==
    /\ frontend = "silent" /\ pc = "load_config"
    /\ args.config_file
    /\ errors' = Append(errors, "Failed to load configuration file")
    /\ pc' = "apply_args"
    /\ UNCHANGED <<proc_vars, args, file_config, config, result, exit_code, steps_run, env,
                   wiz_vars, source, fs_vars>>

\* open() or json.load() raises: load_config_file returns False
LoadConfigFail ==
    /\ frontend = "silent" /\ pc = "load_config"
    /\ args.config_file
    /\ errors' = Append(errors, "Failed to load configuration file")
    /\ result' = "False"
    /\ pc' = "exit"
    /\ UNCHANGED <<proc_vars, args, file_config, config, exit_code, steps_run, env,
                   wiz_vars, source, fs_vars>>

ApplyArguments ==
    /\ frontend = "silent" /\ pc = "apply_args"
    /\ config' = ApplyArgs(config, args)
    /\ pc' = "license"
    /\ UNCHANGED <<proc_vars, args, file_config, result, exit_code, errors, steps_run,
                   env, wiz_vars, source, fs_vars>>

\* "Validate license acceptance"
CheckLicense ==
    /\ frontend = "silent" /\ pc = "license"
    /\ IF ~config.accept_license
       THEN /\ errors' = Append(errors, "License must be accepted for silent installation")
            /\ result' = "False"
            /\ pc' = "exit"
       ELSE /\ pc' = "validate"
            /\ UNCHANGED <<errors, result>>
    /\ UNCHANGED <<proc_vars, args, file_config, config, exit_code, steps_run, env,
                   wiz_vars, source, fs_vars>>

\* "Validate installation path"
ValidatePath ==
    /\ frontend = "silent" /\ pc = "validate"
    /\ \E e \in PathEnvs :
        /\ dir_created => e.exists
        /\ env' = e
        /\ IF validate_installation_path(e) # "Path is valid"
           THEN /\ errors' = Append(errors, "Invalid installation path")
                /\ result' = "False"
                /\ pc' = "exit"
           ELSE /\ pc' = steps[1]
                /\ UNCHANGED <<errors, result>>
    /\ UNCHANGED <<proc_vars, args, file_config, config, exit_code, steps_run,
                   wiz_vars, source, fs_vars>>

\* install_files: os.makedirs, then copy every manifest file found in the source
InstallFiles ==
    /\ frontend = "silent" /\ pc = "Installing files"
    /\ \E src \in Sources(files_to_copy) :
        /\ run = 2 => src = first.source
        /\ source' = src
        /\ dir_created' = TRUE
        /\ installed' = installed \cup FilesCopied(files_to_copy, src, Len(files_to_copy))
    /\ StepDone("Installing files", TRUE)
    /\ UNCHANGED <<proc_vars, args, file_config, config, exit_code, env, wiz_vars, desktop,
                   install_info, probed>>

\* install_files: os.makedirs raises (n = 0), or shutil.copy2 raises at the
\* n-th file
InstallFilesFail ==
    /\ frontend = "silent" /\ pc = "Installing files"
    /\ \E src \in Sources(files_to_copy), n \in 0..MaxMissable :
        /\ IF n = 0 THEN src = {} ELSE files_to_copy[n] \in src
        /\ run = 2 => src = first.source
        /\ source' = src
        /\ dir_created' = (n > 0)
        /\ installed' = installed \cup FilesCopied(files_to_copy, src, n - 1)
    /\ StepDone("Installing files", FALSE)
    /\ UNCHANGED <<proc_vars, args, file_config, config, exit_code, env, wiz_vars, desktop,
                   install_info, probed>>

\* mutant: the launcher is written whatever create_shortcuts says
CreateShortcuts_Always ==
    /\ frontend = "silent" /\ pc = "Creating shortcuts"
    /\ desktop' = desktop \cup {"launcher"}
    /\ StepDone("Creating shortcuts", TRUE)
    /\ UNCHANGED <<proc_vars, args, file_config, config, exit_code, env, wiz_vars, source,
                   dir_created, installed, install_info, probed>>

\* create_shortcuts: skipped, or the launcher is written to the Desktop
CreateShortcuts ==
    /\ frontend = "silent" /\ pc = "Creating shortcuts"
    /\ desktop' = IF config.create_shortcuts THEN desktop \cup {"launcher"} ELSE desktop
    /\ StepDone("Creating shortcuts", TRUE)
    /\ UNCHANGED <<proc_vars, args, file_config, config, exit_code, env, wiz_vars, source,
                   dir_created, installed, install_info, probed>>

\* create_shortcuts: os.makedirs / open / os.chmod on the Desktop raises
CreateShortcutsFail ==
    /\ frontend = "silent" /\ pc = "Creating shortcuts"
    /\ config.create_shortcuts
    /\ StepDone("Creating shortcuts", FALSE)
    /\ UNCHANGED <<proc_vars, args, file_config, config, exit_code, env, wiz_vars, source,
                   fs_vars>>

\* install_service: only looks for the helper script and reports it
InstallService ==
    /\ frontend = "silent" /\ pc = "Preparing service installation"
    /\ StepDone("Preparing service installation", TRUE)
    /\ UNCHANGED <<proc_vars, args, file_config, config, exit_code, env, wiz_vars, source,
                   fs_vars>>

\* create_uninstaller: install_info.json is written into the install path
CreateUninstaller ==
    /\ frontend = "silent" /\ pc = "Creating uninstaller"
    /\ \E plat \in IF platform = "none" THEN {"Windows", "Linux"} ELSE {platform} :
        /\ platform' = plat
        /\ install_info' = << [install_path         |-> config.install_path,
                               installed_components |-> config.components,
                               install_date         |-> getctime(plat)] >>
    /\ installed' = installed \cup {"install_info.json"}
    /\ StepDone("Creating uninstaller", TRUE)
    /\ UNCHANGED <<frontend, run, first, path_vars, args, file_config, config, exit_code,
                   env, wiz_vars, source, dir_created, desktop, probed>>

\* create_uninstaller: os.path.getctime or open raises
CreateUninstallerFail ==
    /\ frontend = "silent" /\ pc = "Creating uninstaller"
    /\ StepDone("Creating uninstaller", FALSE)
    /\ UNCHANGED <<proc_vars, args, file_config, config, exit_code, env, wiz_vars, source,
                   fs_vars>>

\* main: sys.exit(0 if success else 1)
Exit ==
    /\ frontend = "silent" /\ pc = "exit"
    /\ exit_code' = IF result = "True" THEN 0 ELSE 1
    /\ pc' = "done"
    /\ UNCHANGED <<proc_vars, args, file_config, config, result, errors, steps_run, env,
                   wiz_vars, source, fs_vars>>

-----------------------------------------------------------------------------
(* InstallerWizard: handlers of the main thread *)

\* the acceptance checkbox of the License screen
ToggleLicense ==
    /\ Clickable /\ current_step = 1
    /\ license_accepted' = ~license_accepted
    /\ next_enabled' = check_next_button_state(current_step, ~license_accepted,
                                               installation_complete)
    /\ UNCHANGED <<proc_vars, silent_vars, progress_var, install_path, dir_vars,
                   complete_path, current_step, next_command, back_enabled,
                   installation_cancelled, installation_complete, dialog, timers,
                   spawned, workers, callbacks, quit, source, fs_vars>>

\* next_step, the command of "Next >"
NextStep ==
    /\ Clickable /\ next_enabled /\ next_command = "next_step"
    /\ IF current_step < LastStep
       THEN MayShow(current_step + 1) /\ ShowCurrentStep(current_step + 1)
       ELSE UNCHANGED <<nav_vars, timers, spawned, progress_var, dir_vars>>
    /\ UNCHANGED <<proc_vars, silent_vars, install_path, complete_path, license_accepted, installation_cancelled,
                   installation_complete, dialog, workers, callbacks, quit, source, fs_vars>>

\* previous_step, the command of "< Back"
PreviousStep ==
    /\ Clickable /\ back_enabled
    /\ IF current_step > 0
       THEN MayShow(current_step - 1) /\ ShowCurrentStep(current_step - 1)
       ELSE UNCHANGED <<nav_vars, timers, spawned, progress_var, dir_vars>>
    /\ UNCHANGED <<proc_vars, silent_vars, install_path, complete_path, license_accepted, installation_cancelled,
                   installation_complete, dialog, workers, callbacks, quit, source, fs_vars>>

\* start_installation, the command of "Install"
StartInstallation ==
    /\ Clickable /\ next_enabled /\ next_command = "start_installation"
    /\ MayShow(current_step + 1) /\ ShowCurrentStep(current_step + 1)
    /\ UNCHANGED <<proc_vars, silent_vars, install_path, complete_path, license_accepted, installation_cancelled,
                   installation_complete, dialog, workers, callbacks, quit, source, fs_vars>>

\* finish_installation, the command of "Finish"
FinishInstallation ==
    /\ Clickable /\ next_enabled /\ next_command = "finish_installation"
    /\ quit' = TRUE
    /\ UNCHANGED <<proc_vars, silent_vars, progress_var, install_path, dir_vars,
                   complete_path, nav_vars, license_accepted,
                   installation_cancelled, installation_complete, dialog, timers,
                   spawned, workers, callbacks, source, fs_vars>>

\* cancel_installation up to the question it asks
CancelInstallation ==
    /\ Clickable
    /\ installation_cancelled' =
          IF current_step = 4 /\ ~installation_complete THEN TRUE
          ELSE installation_cancelled
    /\ dialog' = "cancel"
    /\ UNCHANGED <<proc_vars, silent_vars, progress_var, install_path, dir_vars,
                   complete_path, nav_vars, license_accepted,
                   installation_complete, timers, spawned, workers, callbacks, quit,
                   source, fs_vars>>

\* cancel_installation after the operator answered the question
CancelAnswer ==
    /\ frontend = "wizard" /\ ~quit /\ dialog = "cancel"
    /\ \E answer \in BOOLEAN : quit' = answer
    /\ dialog' = "none"
    /\ UNCHANGED <<proc_vars, silent_vars, progress_var, install_path, dir_vars,
                   complete_path, nav_vars, license_accepted,
                   installation_cancelled, installation_complete, timers, spawned,
                   workers, callbacks, source, fs_vars>>

\* perform_installation, run by the timer of the Installation screen: starts
\* install_thread
PerformInstallation ==
    /\ frontend = "wizard" /\ ~quit /\ timers > 0
    /\ timers' = timers - 1
    /\ workers' = [workers EXCEPT ![Prepare] = @ + 1]
    /\ UNCHANGED <<proc_vars, silent_vars, progress_var, install_path, dir_vars,
                   complete_path, nav_vars, license_accepted,
                   installation_cancelled, installation_complete, dialog, spawned,
                   callbacks, quit, source, fs_vars>>

\* the first pending root.after(0, ...) callback runs
RunCallback ==
    /\ frontend = "wizard" /\ ~quit /\ callbacks # << >>
    /\ callbacks' = Tail(callbacks)
    /\ CASE Head(callbacks) = "show_permission_error" ->
                \* back to the Directory step
                /\ ShowCurrentStep(2)
         [] Head(callbacks) = "check_next_button_state" ->
                /\ next_enabled' = check_next_button_state(current_step, license_accepted,
                                                           installation_complete)
                /\ UNCHANGED <<current_step, next_command, back_enabled, timers, spawned,
                               progress_var, dir_vars>>
         [] OTHER ->
                \* show_installation_error: a message box, the status label
                \* (which raises when its screen is gone), then the bar is reset
                /\ progress_var' = IF LabelsAlive THEN 0 ELSE progress_var
                /\ UNCHANGED <<nav_vars, timers, spawned, dir_vars>>
    /\ UNCHANGED <<proc_vars, silent_vars, install_path, complete_path, license_accepted, installation_cancelled,
                   installation_complete, dialog, workers, quit, source, fs_vars>>

-----------------------------------------------------------------------------
(* InstallerWizard: install_thread *)

\* os.makedirs and the write probe succeed (.test_write is written, then
\* removed), public/ is created
WorkerPrepare ==
    /\ Running(Prepare)
    /\ dir_created' = TRUE
    /\ installed' = installed \ {test_file}
    /\ probed' = TRUE
    /\ workers' = Move(workers, Prepare, 1)
    /\ UNCHANGED <<proc_vars, silent_vars, progress_var, install_path, dir_vars,
                   complete_path, nav_vars, license_accepted,
                   installation_cancelled, installation_complete, dialog, timers,
                   spawned, callbacks, quit, source, desktop, install_info>>

\* mutant: the thread reports the error of its preparation and goes on into
\* the loop over the files
WorkerPrepareFail_Continues ==
    /\ Running(Prepare)
    /\ \E kind \in {"show_permission_error", "show_installation_error"} :
          callbacks' = Append(callbacks, kind)
    /\ workers' = Move(workers, Prepare, 1)
    /\ UNCHANGED <<proc_vars, silent_vars, progress_var, install_path, dir_vars,
                   complete_path, nav_vars, license_accepted,
                   installation_cancelled, installation_complete, dialog, timers,
                   spawned, quit, source, fs_vars>>

\* os.makedirs, the open of .test_write or its os.remove raises:
\* PermissionError, or another error
WorkerPrepareFail ==
    /\ Running(Prepare)
    /\ \E raised \in {"makedirs", "open", "remove"},
          kind \in {"show_permission_error", "show_installation_error"} :
        /\ dir_created' = (dir_created \/ raised # "makedirs")
        /\ installed' = IF raised = "remove" THEN installed \cup {test_file}
                        ELSE installed
        /\ callbacks' = Append(callbacks, kind)
    /\ workers' = Leave(workers, Prepare)
    /\ UNCHANGED <<proc_vars, silent_vars, progress_var, install_path, dir_vars,
                   complete_path, nav_vars, license_accepted,
                   installation_cancelled, installation_complete, dialog, timers,
                   spawned, quit, source, desktop, install_info, probed>>

\* progress_var.set((i / total_files) * 100) with the zero-based index of the
\* file the turn is about to handle
Progress(i) == i - 1

\* one turn of the loop over files_to_copy: the progress and the labels are
\* set, then the file is copied
WorkerCopy ==
    \E i \in 1..total_files :
        /\ Running(i)
        /\ IF StopsAt(i, installation_cancelled)
           THEN \* return
                /\ workers' = Leave(workers, i)
                /\ UNCHANGED <<callbacks, installed, progress_var>>
           ELSE IF ~LabelsAlive
           THEN \* status_label.config raises: "Installation failed"
                /\ progress_var' = Progress(i)
                /\ workers' = Leave(workers, i)
                /\ callbacks' = Append(callbacks, "show_installation_error")
                /\ UNCHANGED installed
           ELSE /\ progress_var' = Progress(i)
                /\ installed' = IF wizard_files[i] \in source
                                THEN installed \cup {wizard_files[i]}
                                ELSE installed
                /\ workers' = Move(workers, i, AfterFile(i))
                /\ UNCHANGED callbacks
        /\ UNCHANGED <<proc_vars, silent_vars, install_path, dir_vars,
                       complete_path, nav_vars, license_accepted,
                       installation_cancelled, installation_complete, dialog, timers,
                       spawned, quit, source, dir_created, desktop, install_info,
                       probed>>

\* os.makedirs(dest_dir) or shutil.copy2 raises for a file found in the source
WorkerCopyFail ==
    \E i \in 1..total_files :
        /\ Running(i)
        /\ ~StopsAt(i, installation_cancelled)
        /\ LabelsAlive
        /\ wizard_files[i] \in source
        /\ progress_var' = Progress(i)
        /\ workers' = Leave(workers, i)
        /\ callbacks' = Append(callbacks, "show_installation_error")
        /\ UNCHANGED <<proc_vars, silent_vars, install_path, dir_vars,
                   complete_path, nav_vars, license_accepted,
                       installation_cancelled, installation_complete, dialog, timers,
                       spawned, quit, source, fs_vars>>

\* after the loop: minecraft-server/ is created, the bar is set to 100, the
\* labels are updated and installation_complete is set
WorkerFinish ==
    /\ Running(Finalize)
    /\ workers' = Leave(workers, Finalize)
    /\ installed' = installed \cup {"minecraft-server"}
    /\ progress_var' = total_files
    /\ IF LabelsAlive
       THEN /\ installation_complete' = TRUE
            /\ complete_path' = install_path
            /\ callbacks' = Append(callbacks, "check_next_button_state")
       ELSE /\ callbacks' = Append(callbacks, "show_installation_error")
            /\ UNCHANGED <<installation_complete, complete_path>>
    /\ UNCHANGED <<proc_vars, silent_vars, install_path, dir_vars,
                   nav_vars, license_accepted,
                   installation_cancelled, dialog, timers, spawned, quit, source,
                   dir_created, desktop, install_info, probed>>

-----------------------------------------------------------------------------
(* A second run *)

\* the installer is started again with the same command line, the same config
\* file and the same source directory on the path where a first silent run
\* succeeded: a new process, the file system as the first run left it
Rerun ==
    /\ frontend = "silent" /\ pc = "done" /\ exit_code = 0
    /\ run = 1
    /\ run' = 2
    /\ first' = [file_config |-> file_config, source |-> source, installed |-> installed,
                 desktop |-> desktop, install_info |-> install_info]
    /\ file_config' = NoFile
    /\ config' = DefaultConfig
    /\ pc' = "parse"
    /\ result' = "none"
    /\ exit_code' = -1
    /\ errors' = << >>
    /\ steps_run' = << >>
    /\ env' = NoEnv
    /\ UNCHANGED <<frontend, platform, path_vars, args, wiz_vars, source, fs_vars>>

-----------------------------------------------------------------------------

Next ==
    \/ ParseArguments
    \/ ParseExit
    \/ LoadConfigOk
    \/ LoadConfigNone
    \/ LoadConfigFail
    \/ ApplyArguments
    \/ CheckLicense
    \/ ValidatePath
    \/ InstallFiles
    \/ InstallFilesFail
    \/ CreateShortcuts
    \/ CreateShortcutsFail
    \/ InstallService
    \/ CreateUninstaller
    \/ CreateUninstallerFail
    \/ Exit
    \/ ToggleLicense
    \/ NextStep
    \/ PreviousStep
    \/ StartInstallation
    \/ FinishInstallation
    \/ CancelInstallation
    \/ CancelAnswer
    \/ PerformInstallation
    \/ RunCallback
    \/ WorkerPrepare
    \/ WorkerPrepareFail
    \/ WorkerCopy
    \/ WorkerCopyFail
    \/ WorkerFinish

Spec == Init /\ [][Next]_vars

RerunNext == Next \/ Rerun

RerunSpec == Init /\ [][RerunNext]_vars

-----------------------------------------------------------------------------
(* InstallerWizard: the Directory screen *)

\* a directory picked in the file dialog, a text typed into the entry
BrowseTargets == {"pBrowse"}
TypedPaths == {"pTyped"}

\* browse_directory, the command of "Browse...": a picked directory goes to
\* the entry and to install_path and is validated; a cancelled dialog (the
\* empty string) changes nothing
BrowseDirectory ==
    /\ Clickable /\ current_step = 2
    /\ \E directory \in BrowseTargets \cup {""} :
          IF directory # ""
          THEN /\ path_var' = directory
               /\ install_path' = directory
               /\ validated' = directory
          ELSE UNCHANGED <<path_var, install_path, validated>>
    /\ UNCHANGED <<proc_vars, silent_vars, progress_var, complete_path, nav_vars,
                   license_accepted, installation_cancelled, installation_complete,
                   dialog, timers, spawned, workers, callbacks, quit, source,
                   fs_vars>>

\* the operator types into the entry, which is bound to path_var only
TypePath ==
    /\ Clickable /\ current_step = 2
    /\ \E text \in TypedPaths : path_var' = text
    /\ UNCHANGED <<proc_vars, silent_vars, progress_var, install_path, validated,
                   complete_path, nav_vars, license_accepted,
                   installation_cancelled, installation_complete, dialog, timers,
                   spawned, workers, callbacks, quit, source, fs_vars>>

\* the event loop runs every due timer and callback, and the operating system
\* schedules every thread that can run
Fairness ==
    /\ WF_vars(PerformInstallation)
    /\ WF_vars(RunCallback)
    /\ WF_vars(WorkerPrepare)
    /\ WF_vars(WorkerCopy)
    /\ WF_vars(WorkerFinish)

FairSpec == Spec /\ Fairness

BrowseNext == Next \/ BrowseDirectory \/ TypePath

BrowseSpec == Init /\ [][BrowseNext]_vars

-----------------------------------------------------------------------------
(* The install path: default path and validation, as functions of the path,
   the platform and the file system *)

PathInit ==
    /\ frontend \in {"silent", "wizard"}
    /\ platform \in {"Windows", "Linux"}
    /\ run = 1
    /\ first = NoFirst
    /\ args = NoArgs
    /\ file_config = NoFile
    /\ config = DefaultConfig
    /\ pc = "parse"
    /\ result = "none"
    /\ exit_code = -1
    /\ errors = << >>
    /\ steps_run = << >>
    /\ env = NoEnv
    /\ current_step = 0
    /\ license_accepted = FALSE
    /\ installation_cancelled = FALSE
    /\ installation_complete = FALSE
    /\ next_enabled = TRUE
    /\ next_command = "next_step"
    /\ back_enabled = FALSE
    /\ dialog = "none"
    /\ timers = 0
    /\ spawned = 0
    /\ workers = NoWorkers
    /\ callbacks = << >>
    /\ quit = FALSE
    /\ progress_var = 0
    /\ install_path = DefaultPath
    /\ path_var = DefaultPath
    /\ validated = "none"
    /\ complete_path = "none"
    /\ source = {}
    /\ dir_created = FALSE
    /\ installed = {}
    /\ desktop = {}
    /\ install_info = << >>
    /\ probed = FALSE
    /\ os_env \in OsEnvs(platform)
    /\ default_path = << >>
    /\ path \in Paths(platform)
    /\ path_facts \in PathFacts
    /\ validation = "none"

\* __init__ of the front end: self.install_path / self.default_install_path
GetDefaultInstallPath ==
    /\ default_path = << >>
    /\ default_path' = get_default_install_path(frontend, platform, os_env)
    /\ UNCHANGED <<frontend, platform, run, first, os_env, path, path_facts, validation,
                   silent_vars, wiz_vars, source, fs_vars>>

\* the silent front end validates the path: the message of
\* validate_installation_path
ValidateInstallationPath ==
    /\ frontend = "silent" /\ validation = "none"
    /\ validation' = validate_installation_path(Answers(path_facts))
    /\ UNCHANGED <<frontend, platform, run, first, os_env, default_path, path, path_facts,
                   silent_vars, wiz_vars, source, fs_vars>>

\* the wizard validates the path of the Directory screen: the text of the
\* validation label
ValidateDirectory ==
    /\ frontend = "wizard" /\ validation = "none"
    /\ validation' = validate_directory(platform, path, path_facts)
    /\ UNCHANGED <<frontend, platform, run, first, os_env, default_path, path, path_facts,
                   silent_vars, wiz_vars, source, fs_vars>>

PathNext ==
    \/ GetDefaultInstallPath
    \/ ValidateInstallationPath
    \/ ValidateDirectory

PathSpec == PathInit /\ [][PathNext]_vars

-----------------------------------------------------------------------------
(* Properties *)

SilentFinished == frontend = "silent" /\ pc = "done"

\* argparse accepted the command line
Parsed == pc \notin {"parse", "usage"}

LoadFailed ==
    errors # << >> /\ Head(errors) = "Failed to load configuration file"

FileSets(k) == k \in file_config.keys

NothingWritten == ~dir_created /\ installed = {} /\ desktop = {}

\* C1: a silent run whose license is accepted neither by --accept-license nor
\* by the config file fails (exit code 1) without running any installation
\* step: the install directory is not created and nothing is written.
C1_LicenseRequired ==
    ( /\ frontend = "silent" /\ Parsed
      /\ pc \notin {"load_config", "apply_args", "license"}
      /\ ~args.accept_license
      /\ ~(FileSets("accept_license") /\ file_config.accept_license) )
    => /\ result = "False"
       /\ pc \in {"exit", "done"}
       /\ pc = "done" => exit_code = 1
       /\ steps_run = << >>
       /\ NothingWritten

C1_Witness ==
    /\ SilentFinished
    /\ ~args.accept_license
    /\ FileSets("accept_license") /\ ~file_config.accept_license
    /\ errors = << "License must be accepted for silent installation" >>
    /\ exit_code = 1

\* C2: when the config file cannot be read or parsed the run fails before
\* any change to the file system, whatever the other flags are: no step is
\* run, nothing is created.
C2_ConfigFailureAborts ==
    (frontend = "silent" /\ LoadFailed)
    => /\ result = "False"
       /\ pc \in {"exit", "done"}
       /\ pc = "done" => exit_code = 1
       /\ Len(errors) = 1
       /\ steps_run = << >>
       /\ NothingWritten

C2_Witness ==
    /\ SilentFinished /\ LoadFailed
    /\ args.accept_license /\ args.install_path = "pCli"
    /\ exit_code = 1

\* C3: in the resolved plan of a silent run a command line flag wins over the
\* config file, and a value given by the config file alone replaces the
\* default; for install path, license, create_shortcuts, install_service and
\* the examples component.
C3_Precedence ==
    (frontend = "silent" /\ Parsed /\ pc \notin {"load_config", "apply_args"} /\ ~LoadFailed)
    => /\ config.install_path =
            IF args.install_path # "none" THEN args.install_path
            ELSE IF FileSets("install_path") THEN file_config.install_path
            ELSE DefaultPath
       /\ config.accept_license =
            IF args.accept_license THEN TRUE
            ELSE IF FileSets("accept_license") THEN file_config.accept_license
            ELSE FALSE
       /\ config.create_shortcuts =
            IF args.no_shortcuts THEN FALSE
            ELSE IF FileSets("create_shortcuts") THEN file_config.create_shortcuts
            ELSE TRUE
       /\ config.install_service =
            IF args.no_service THEN FALSE
            ELSE IF FileSets("install_service") THEN file_config.install_service
            ELSE TRUE
       /\ IF args.include_examples
          THEN config.components["examples"]
          ELSE IF FileSets("components")
          THEN "examples" \in DOMAIN file_config.components
                  => config.components["examples"] = file_config.components["examples"]
          ELSE ~config.components["examples"]

\* a run that got past validation with a flag and the file in conflict on the
\* install path, and the file alone setting create_shortcuts
C3_Witness ==
    /\ frontend = "silent" /\ pc = "Installing files"
    /\ args.install_path = "pCli" /\ FileSets("install_path")
    /\ config.install_path = "pCli"
    /\ ~args.no_shortcuts /\ FileSets("create_shortcuts") /\ ~config.create_shortcuts

\* C4: a run is reported complete (silent: returns True; wizard:
\* installation_complete) only after install_info.json was written into the
\* install path.
C4_CompleteOnlyAfterRecord ==
    /\ (frontend = "silent" /\ result = "True") => "install_info.json" \in installed
    /\ installation_complete => "install_info.json" \in installed

\* C5: the installation steps run one at a time in the order file placement,
\* shortcuts, service, uninstall record: the steps run so far are a prefix of
\* that order, each but the last one has returned successfully, and the step
\* in progress is the next one of the order.
C5_StepsInOrder ==
    /\ Len(steps_run) <= Len(steps)
    /\ \A i \in DOMAIN steps_run : steps_run[i].step = steps[i]
    /\ \A i \in DOMAIN steps_run : i < Len(steps_run) => steps_run[i].ok
    /\ pc \in Range(steps) =>
          /\ pc = steps[Len(steps_run) + 1]
          /\ \A i \in DOMAIN steps_run : steps_run[i].ok

C5_Witness ==
    /\ SilentFinished
    /\ Len(steps_run) = Len(steps)
    /\ steps_run[Len(steps)].step = "Creating uninstaller"
    /\ exit_code = 0

\* C6: a failure of the shortcut step or of the service step is not fatal:
\* the remaining steps run, the uninstall record is written and the run
\* succeeds.
C6_ShortcutFailureNonFatal ==
    ( /\ SilentFinished
      /\ \E i \in DOMAIN steps_run :
            /\ steps_run[i].step \in {"Creating shortcuts", "Preparing service installation"}
            /\ ~steps_run[i].ok )
    => /\ exit_code = 0
       /\ Len(steps_run) = Len(steps)
       /\ "install_info.json" \in installed

RecordWriteFailed ==
    /\ frontend = "silent"
    /\ Len(steps_run) = Len(steps)
    /\ ~steps_run[Len(steps)].ok

\* C7: a failure of the uninstall record write is fatal although every
\* earlier step succeeded: the run fails with exit code 1, and the files
\* copied before stay in place.
C7_RecordFailureFatal ==
    RecordWriteFailed
    => /\ \A i \in 1..(Len(steps) - 1) : steps_run[i].ok
       /\ result = "False"
       /\ pc \in {"exit", "done"}
       /\ pc = "done" => exit_code = 1
       /\ errors = << "Creating uninstaller" >>
       /\ dir_created
       /\ installed = Range(files_to_copy) \cap source
       /\ config.create_shortcuts => desktop = {"launcher"}

C7_Witness ==
    /\ RecordWriteFailed /\ pc = "done" /\ exit_code = 1
    /\ installed = Range(files_to_copy)
    /\ desktop = {"launcher"}

C9_CancelAfterCopy ==
    [][ ( /\ installation_cancelled
          /\ workers[Finalize] > 0
          /\ workers'[Finalize] < workers[Finalize] )
        => /\ installation_complete' = installation_complete
           /\ installed \subseteq installed'
           /\ "install_info.json" \notin installed' ]_vars

\* C10: once the cancellation flag is set the thread stops and never sets
\* installation_complete: the two flags are never both true.
C10_CancelledNeverComplete ==
    ~(installation_cancelled /\ installation_complete)

\* C11: in the wizard the installation thread is never started while
\* license_accepted is false, and whenever the wizard is on a step after the
\* License step license_accepted is true.
C11_LicenseBeforeInstall ==
    [][ /\ workers'[Prepare] > workers[Prepare] => license_accepted
        /\ current_step' > 1 => license_accepted' ]_vars

\* C12: whenever a step of the silent pipeline has executed, the component
\* selection of the resolved plan contains the required component 'core',
\* selected, and so do the installed_components of the uninstall record.
C12_CoreAlwaysSelected ==
    /\ (frontend = "silent" /\ steps_run # << >>)
          => /\ "core" \in DOMAIN config.components
             /\ config.components["core"]
    /\ install_info # << >>
          => /\ "core" \in DOMAIN install_info[1].installed_components
             /\ install_info[1].installed_components["core"]

\* the run reached path validation: the file was loaded and the license
\* accepted
PathValidated ==
    /\ frontend = "silent" /\ Parsed
    /\ pc \notin {"load_config", "apply_args", "license", "validate"}
    /\ ~LoadFailed
    /\ config.accept_license

\* C13: a silent run whose install path is rejected by validation (it exists
\* and is not writable, or it is absent and its parent is missing or not
\* writable) fails with exit code 1 and the one diagnostic of the rejection;
\* no step is executed, no file or directory is written.
C13_InvalidPathAborts ==
    (PathValidated /\ (\/ env.exists /\ ~env.writable
                       \/ ~env.exists /\ ~env.parent_exists
                       \/ ~env.exists /\ ~env.parent_writable))
    => /\ result = "False"
       /\ pc \in {"exit", "done"}
       /\ pc = "done" => exit_code = 1
       /\ errors = << "Invalid installation path" >>
       /\ steps_run = << >>
       /\ NothingWritten

\* a finished run on an existing directory that is not writable
C13_Witness ==
    /\ SilentFinished /\ PathValidated
    /\ env.exists /\ ~env.writable
    /\ errors = << "Invalid installation path" >>
    /\ exit_code = 1

\* C20: when the resolved plan disables shortcuts (respectively the service)
\* the step changes nothing in the file system, returns success, prints no
\* error, and the run goes on with the step that follows.
C20_DisabledStepsSkipped ==
    [][ /\ (frontend = "silent" /\ pc = "Creating shortcuts" /\ ~config.create_shortcuts)
           => /\ fs_vars' = fs_vars
              /\ steps_run' = Append(steps_run, [step |-> "Creating shortcuts", ok |-> TRUE])
              /\ errors' = errors
              /\ pc' = "Preparing service installation"
        /\ (frontend = "silent" /\ pc = "Preparing service installation"
                                /\ ~config.install_service)
           => /\ fs_vars' = fs_vars
              /\ steps_run' = Append(steps_run, [step |-> "Preparing service installation",
                                                 ok |-> TRUE])
              /\ errors' = errors
              /\ pc' = "Creating uninstaller" ]_vars

\* both steps were skipped and the run is about to write the record
C20_Witness ==
    /\ frontend = "silent" /\ pc = "Creating uninstaller"
    /\ ~config.create_shortcuts /\ ~config.install_service
    /\ Len(steps_run) = 3 /\ steps_run[2].ok /\ steps_run[3].ok
    /\ desktop = {}

\* the payload: the manifest files of the two front ends
Payload == Range(files_to_copy) \cup Range(wizard_files)

\* C19: in both front ends a step that copies a payload file finds the install
\* directory created and the write probe in it succeeded; and a prepare step
\* that succeeded leaves no marker file in the install path.
C19_ProbeBeforeCopy ==
    [][ /\ (installed' \ installed) \cap Payload # {} => dir_created' /\ probed'
        /\ workers'[1] > workers[1] => test_file \notin installed' ]_vars

\* config loading, license validation, path validation and the four steps
\* succeeded
FullSuccess ==
    /\ Parsed /\ ~LoadFailed
    /\ config.accept_license
    /\ validate_installation_path(env) = "Path is valid"
    /\ Len(steps_run) = Len(steps)
    /\ \A i \in DOMAIN steps_run : steps_run[i].ok

\* C17: a silent process that has exited has exit code 0 or 1, and 0 exactly
\* when config loading, license validation, path validation and every step
\* succeeded.
C17_ExitCodes ==
    (frontend = "silent" /\ exit_code # -1)
    => /\ exit_code \in {0, 1}
       /\ exit_code = 0 <=> FullSuccess

\* C18: a second silent run with the same plan on the path where a first run
\* succeeded, when it succeeds, leaves the same installed files, the same
\* launcher and the same uninstall record as the first run did.
C18_RerunIdempotent ==
    (frontend = "silent" /\ run = 2 /\ pc = "done" /\ exit_code = 0)
    => /\ installed = first.installed
       /\ desktop = first.desktop
       /\ install_info = first.install_info

\* the path of the Directory screen is classified as reserved
Reserved == is_admin_required_path(platform, path)

\* the chosen path cannot be written to: it exists and is not writable, or it
\* does not exist and its parent is missing or not writable
NoWriteAccess ==
    \/ path_facts.exists /\ ~path_facts.writable
    \/ ~path_facts.exists /\ ~(path_facts.parent_exists /\ path_facts.parent_writable)

Accepted == validation \in {"Path is valid", "Directory will be created"}

\* C15: in both front ends a path that does not exist is accepted exactly
\* when its nearest existing ancestor is writable, that is when the recursive
\* os.makedirs of the prepare step can create it.
C15_NearestAncestor ==
    (validation # "none" /\ ~path_facts.exists)
    => (Accepted <=> makedirs(path_facts))

\* C16: on every platform and in both front ends the default install path is
\* not under a prefix that is_admin_required_path classifies as reserved.
C16_DefaultNotReserved ==
    default_path # << >> => ~is_admin_required_path(platform, default_path)

\* the error reports of the wizard waiting in the callback queue
ErrorCallbacks == {"show_permission_error", "show_installation_error"}

\* one thread leaves position p
ThreadLeaves(p) == workers[p] > 0 /\ workers' = Leave(workers, p)

ActiveWorkers == {p \in WorkerPositions : workers[p] > 0}

\* C23: at most one installation thread is active at any time, and
\* perform_installation never starts a thread while another one is executing.
C23_SingleWorker ==
    [][ /\ workers'[Prepare] > workers[Prepare] => ActiveWorkers = {}
        /\ \A p \in WorkerPositions : workers'[p] <= 1
        /\ \A p, q \in WorkerPositions :
              (workers'[p] > 0 /\ workers'[q] > 0) => p = q ]_vars

\* a run of either front end ended in success
RunSucceeded ==
    \/ frontend = "silent" /\ pc = "done" /\ exit_code = 0
    \/ frontend = "wizard" /\ installation_complete

\* the source directory holds every file the front end looks for, and the
\* plan is the default one as far as the steps go: shortcuts and service
\* enabled (the wizard offers both selected)
FullSourceDefaultPlan ==
    \/ /\ frontend = "silent" /\ source = Range(files_to_copy)
       /\ config.create_shortcuts /\ config.install_service
    \/ frontend = "wizard" /\ source = Range(wizard_files)

\* C24: both front ends run the same pipeline: a successful run of either
\* one, for the default plan on a source directory that holds every manifest
\* file, has executed the four steps over the same manifest and leaves the
\* same artifacts: the manifest files, the uninstall record and the launcher.
C24_SamePipeline ==
    (RunSucceeded /\ FullSourceDefaultPlan)
    => /\ Range(wizard_files) = Range(files_to_copy)
       /\ [i \in DOMAIN steps_run |-> steps_run[i].step] = steps
       /\ installed = Range(files_to_copy) \cup {"install_info.json"}
       /\ desktop = {"launcher"}

\* component c is recorded as installed in the uninstall record
RecordedInstalled(c) ==
    /\ c \in DOMAIN install_info[1].installed_components
    /\ install_info[1].installed_components[c]

\* C25: after a successful silent run the installed_components of the record
\* are the components selected and installed: with default settings the
\* required and default ones (core, service, shortcuts), and never a component
\* whose step the plan disabled (install_service, create_shortcuts false).
C25_RecordedComponents ==
    (frontend = "silent" /\ pc = "done" /\ exit_code = 0)
    => /\ install_info # << >>
       /\ (args = [NoArgs EXCEPT !.accept_license = TRUE])
             => {c \in ComponentIds : RecordedInstalled(c)} = {"core", "service", "shortcuts"}
       /\ ~config.install_service => ~RecordedInstalled("service")
       /\ ~config.create_shortcuts => ~RecordedInstalled("shortcuts")

\* C26: the config file is a partial override: right after it is loaded a
\* field it does not mention has its default value, a field it mentions has
\* the value of the file, and a component id its components object does not
\* mention has its default selection.
C26_PartialOverride ==
    (frontend = "silent" /\ pc = "apply_args")
    => /\ \A k \in ConfigKeys \ {"components"} :
             config[k] = IF FileSets(k) THEN file_config[k] ELSE DefaultConfig[k]
       /\ \A c \in ComponentIds :
             /\ c \in DOMAIN config.components
             /\ config.components[c] =
                   IF FileSets("components") /\ c \in DOMAIN file_config.components
                   THEN file_config.components[c]
                   ELSE DefaultComponents[c]

\* a turn of the loop of install_thread that handled the i-th file
FileHandled(i) == workers[i] > 0 /\ workers' = Move(workers, i, AfterFile(i))

\* C27: during the copy in the wizard the progress is reported after each file
\* as (index, total, filename): once the i-th file has been handled the bar
\* stands at i of total_files; the fraction stays within its bounds, never
\* decreases while a thread of the run is active, and reaches 100% only when
\* the run completes.
C27_ProgressReports ==
    [][/\ progress_var' \in 0..total_files
       /\ \A i \in 1..total_files : FileHandled(i) => progress_var' = i
       /\ (ActiveWorkers # {} /\ ActiveWorkers' # {}) => progress_var' >= progress_var
       /\ (progress_var' = total_files /\ progress_var # total_files)
            => installation_complete']_vars

\* C28: whenever the wizard shows the Complete step, an installation into the
\* install path selected now has finished successfully and no installation
\* thread is running.
C28_CompleteMeansInstalled ==
    (frontend = "wizard" /\ current_step = 5)
    => /\ installation_complete
       /\ complete_path = install_path
       /\ ActiveWorkers = {}

\* perform_installation starts install_thread
ThreadStarts == workers'[Prepare] = workers[Prepare] + 1

\* the threads that have prepared the directory under install_path and are in
\* or after the loop over the files
InstallingThreads == {p \in ActiveWorkers : p > Prepare}

\* C22: the install plan is immutable once the pipeline has started: while an
\* installation thread is past its preparation install_path does not change, and while the
\* steps of a silent run execute its configuration does not change.
C22_PlanImmutable ==
    [][/\ InstallingThreads # {} => install_path' = install_path
       /\ (frontend = "silent" /\ pc \in Range(steps)) => config' = config]_vars

\* C30: whenever the installation thread starts, install_path is the value of
\* the directory field that validate_directory checked last, whether it was
\* picked with Browse or typed into the entry.
C30_InstallsValidatedPath ==
    [][ThreadStarts => (install_path = path_var /\ path_var = validated)]_vars

\* Cancel was pressed during the installation and the question was answered
\* with No while the thread of the first visit of the Installation screen is
\* running and no error is waiting to be reported
CancelDeclined ==
    /\ Clickable /\ current_step = 4
    /\ installation_cancelled
    /\ spawned = 1 /\ ActiveWorkers # {} /\ callbacks = << >>

\* an error of a thread is waiting to be reported
Errored == \E k \in DOMAIN callbacks : callbacks[k] \in ErrorCallbacks

\* C29: Cancel during the installation, answered with No, leaves the
\* installation unaffected: unless an error is raised or the wizard is left,
\* installation_complete eventually becomes true.
C29_DeclinedCancelHarmless ==
    CancelDeclined ~> (installation_complete \/ Errored \/ quit)

\* the event loop runs show_permission_error
PermissionErrorShown ==
    /\ callbacks # << >> /\ Head(callbacks) = "show_permission_error"
    /\ callbacks' = Tail(callbacks)

\* C31: in the wizard current_step is always an index into steps (0 to 5):
\* nothing moves it below 0 or above the last step, handlers move it by one,
\* the Next button carries start_installation on step 4 only, and
\* show_permission_error is the only jump, to step 2.
C31_StepInRange ==
    [][frontend = "wizard"
       => /\ current_step \in 0..LastStep /\ current_step' \in 0..LastStep
          /\ next_command' = "start_installation" <=> current_step' = 4
          /\ PermissionErrorShown => current_step' = 2
          /\ (current_step' # current_step /\ ~PermissionErrorShown)
             => \/ current_step' = current_step + 1 /\ current_step < LastStep
                \/ current_step' = current_step - 1 /\ current_step > 0]_vars

\* the wizard on its last step, the Next button reading "Finish"
C31_Witness ==
    /\ frontend = "wizard"
    /\ current_step = LastStep
    /\ next_command = "finish_installation"
    /\ installation_complete

\* a thread reports a permission error of its preparation
PermissionErrorRaised == callbacks' = Append(callbacks, "show_permission_error")

\* C32: a thread whose preparation (creating the install directory, the write
\* probe) fails with a permission error ends there: it has copied no file and
\* copies none, it does not set installation_complete, and the report it
\* queued puts the wizard on the Directory screen (step 2), which shows
\* install_path for another choice.
C32_PermissionErrorBackToDirectory ==
    [][frontend = "wizard"
       => /\ PermissionErrorRaised
             => /\ ThreadLeaves(Prepare)
                /\ installed' \cap Range(wizard_files) = installed \cap Range(wizard_files)
                /\ installation_complete' = installation_complete
                /\ complete_path' = complete_path
          /\ PermissionErrorShown
             => /\ current_step' = 2
                /\ next_command' = "next_step" /\ next_enabled'
                /\ path_var' = install_path]_vars

\* the only thread of the session has ended on a permission error, its report
\* is waiting, no file was copied
C32_Witness ==
    /\ frontend = "wizard" /\ spawned = 1 /\ timers = 0
    /\ ActiveWorkers = {}
    /\ callbacks = << "show_permission_error" >>
    /\ installed \cap Range(wizard_files) = {}
    /\ ~installation_complete
    /\ current_step = 4

====
